---- MODULE Spec2Model ----
(***************************************************************************)
(* Model of the CAPEX dashboard (src/app.js): the asynchronous dataset    *)
(* load, the six filter selects and the clear button, and the pipeline    *)
(* filtrarDatos -> calcularKPIs / agruparPorCampoProy / agruparPorMes /   *)
(* top10Proyectos -> render that every event runs.                        *)
(*                                                                         *)
(* JavaScript values are represented as follows.                          *)
(*   - a string that the code builds or parses character by character     *)
(*     (the option value of a year or month, the "YYYY-MM" bucket key) is *)
(*     a sequence of character codes ('0' = 48 ... '9' = 57, '-' = 45);   *)
(*     every other string is a TLA+ string;                                *)
(*   - undefined (a missing attribute) is the string UNDEFINED, which is  *)
(*     different from the JavaScript string "undefined";                  *)
(*   - null / a value is a sequence of length 0 / 1;                      *)
(*   - amounts are naturals, a percentage is the fraction num/den         *)
(*     (den = 0 stands for the non-finite results NaN and Infinity);      *)
(*   - an object literal used as a map ({} filled by acc[key] = ...) is   *)
(*     the sequence of its own entries in the order of Object.entries:    *)
(*     the keys that are array indices first, in ascending numeric order, *)
(*     then the other keys in insertion order; a read of a key that is    *)
(*     not an own key but names a property of Object.prototype finds the  *)
(*     inherited value.                                                    *)
(***************************************************************************)
EXTENDS Integers, Sequences, FiniteSets, TLC

VARIABLES
  bound,      \* bindFiltros has attached the listeners
  fase,       \* position of cargarDatos: "inicio", "fetch", "json", "cargado", "error"
  fetches,    \* number of fetch() calls issued
  datos,      \* estado.datos: << >> is null, <<d>> is the dataset d
  filtros,    \* estado.filtros
  opciones,   \* option values appended to the six <select> elements
  calc,       \* locals of the last completed actualizarDashboard: << >> or <<r>>
  dom,        \* rendered page: KPI texts, the four canvases, the table, the chips
  excepcion,  \* the last listener run ended with an uncaught TypeError
  ultimo      \* the last step taken: "inicio", "carga", "error", "cambiar", "limpiar"

vars == <<bound, fase, fetches, datos, filtros, opciones, calc, dom, excepcion, ultimo>>

(***************************************************************************)
(* Bounds of the model.                                                    *)
(***************************************************************************)
MaxReg == 3
MaxRank == 11
\* Keys of up to MaxDigitos decimal digits are recognised as array indices.
MaxDigitos == 3

(***************************************************************************)
(* JavaScript primitives.                                                  *)
(***************************************************************************)
UNDEFINED == "<undefined>"

\* String(v) of a project attribute: undefined becomes the text "undefined".
StringDe(v) == IF v = UNDEFINED THEN "undefined" ELSE v

RECURSIVE Digitos(_)
Digitos(n) == IF n < 10 THEN <<48 + n>> ELSE Append(Digitos(n \div 10), 48 + (n % 10))

\* String(n) of a non-negative integer: its decimal digits.
StringNum(n) == Digitos(n)

RECURSIVE ParseDigitos(_, _)
ParseDigitos(s, acc) ==
  IF s = << >> \/ Head(s) < 48 \/ Head(s) > 57 THEN acc
  ELSE ParseDigitos(Tail(s), 10 * acc + (Head(s) - 48))

NaN == -1

\* parseInt(s): the leading decimal digits of s, NaN when there is none.
parseInt(s) ==
  IF s = << >> \/ Head(s) < 48 \/ Head(s) > 57 THEN NaN ELSE ParseDigitos(s, 0)

\* s.padStart(2, '0')
padStart2(s) == IF Len(s) >= 2 THEN s ELSE IF Len(s) = 1 THEN <<48>> \o s ELSE <<48, 48>>

RECURSIVE LexMenor(_, _)
\* a.localeCompare(b) < 0 for strings of digits and hyphens.
LexMenor(a, b) ==
  IF b = << >> THEN FALSE
  ELSE IF a = << >> THEN TRUE
  ELSE IF Head(a) # Head(b) THEN Head(a) < Head(b)
  ELSE LexMenor(Tail(a), Tail(b))

\* The property names every plain object inherits from Object.prototype; the
\* inherited values are functions or, for __proto__, Object.prototype: all truthy.
PrototypeNames ==
  {"constructor", "toString", "toLocaleString", "valueOf", "hasOwnProperty",
   "isPrototypeOf", "propertyIsEnumerable", "__proto__", "__defineGetter__",
   "__defineSetter__", "__lookupGetter__", "__lookupSetter__"}

\* The canonical decimal strings: the keys Object.entries lists first.
Indices == {ToString(n) : n \in 0..(10^MaxDigitos - 1)}
EsIndice(clave) == clave \in Indices

\* The number an index key denotes.
ValorIndice(clave) ==
  CHOOSE n \in (IF Len(clave) = 1 THEN 0 ELSE 10^(Len(clave) - 1))..(10^Len(clave) - 1) :
    ToString(n) = clave

\* arr.slice(0, n)
Slice0(arr, n) == SubSeq(arr, 1, IF Len(arr) < n THEN Len(arr) ELSE n)

(***************************************************************************)
(* Program constants.                                                      *)
(***************************************************************************)
EN_EJECUCION == "En ejecución"
TopN == 10
TopChart == 8
Filtros0 ==
  [anio |-> << >>, mes |-> << >>, area |-> "", tipo |-> "", estadoProy |-> "", region |-> ""]
Claves == {"anio", "mes", "area", "tipo", "estadoProy", "region"}
Canvases == {"canvas-area", "canvas-tipo", "canvas-linea", "canvas-presupuesto"}

(***************************************************************************)
(* 3. filtrarDatos                                                         *)
(***************************************************************************)
\* Object.fromEntries(proyectos.map(p => [p.id, p])): the last project of an id wins.
ProyMap(proyectos) ==
  [id \in {proyectos[i].id : i \in 1..Len(proyectos)} |->
     LET ult == CHOOSE i \in 1..Len(proyectos) :
                  /\ proyectos[i].id = id
                  /\ \A j \in 1..Len(proyectos) : proyectos[j].id = id => j <= i
     IN proyectos[ult]]

\* What a project reads as when proyMap[id] finds an inherited property: a
\* truthy value without id, area, tipo, estado or region.
Heredado ==
  [id |-> UNDEFINED, area |-> UNDEFINED, tipo |-> UNDEFINED, estado |-> UNDEFINED,
   region |-> UNDEFINED]

\* proyMap[id]: << >> when the read gives undefined, else the value found.
LeerProy(proyMap, id) ==
  IF id \in DOMAIN proyMap THEN <<proyMap[id]>>
  ELSE IF id \in PrototypeNames THEN <<Heredado>>
  ELSE << >>

\* The callback of registros.filter in filtrarDatos.
PasaFiltro(reg, proyMap, f) ==
  IF LeerProy(proyMap, reg.id_proyecto) = << >> THEN FALSE
  ELSE LET proy == LeerProy(proyMap, reg.id_proyecto)[1] IN
    IF f.anio # << >> /\ reg.anio # parseInt(f.anio) THEN FALSE
    ELSE IF f.mes # << >> /\ reg.mes # parseInt(f.mes) THEN FALSE
    ELSE IF f.area # "" /\ proy.area # f.area THEN FALSE
    ELSE IF f.tipo # "" /\ proy.tipo # f.tipo THEN FALSE
    ELSE IF f.estadoProy # "" /\ proy.estado # f.estadoProy THEN FALSE
    ELSE IF f.region # "" /\ proy.region # f.region THEN FALSE
    ELSE TRUE

\* Mutant of filtrarDatos: proyectosFilt is taken from the ids of all the records.
filtrarDatosIdsSinFiltrar(d, f) ==
  LET proyMap == ProyMap(d.proyectos)
      Pasa(reg) == PasaFiltro(reg, proyMap, f)
      ids == {d.registros[i].id_proyecto : i \in 1..Len(d.registros)}
      Incluido(p) == p.id \in ids
  IN [registrosFilt |-> SelectSeq(d.registros, Pasa),
      proyectosFilt |-> SelectSeq(d.proyectos, Incluido),
      proyMap |-> proyMap]

filtrarDatos(d, f) ==
  LET proyMap == ProyMap(d.proyectos)
      Pasa(reg) == PasaFiltro(reg, proyMap, f)
      registrosFilt == SelectSeq(d.registros, Pasa)
      idsFiltrados == {registrosFilt[i].id_proyecto : i \in 1..Len(registrosFilt)}
      Incluido(p) == p.id \in idsFiltrados
  IN [registrosFilt |-> registrosFilt,
      proyectosFilt |-> SelectSeq(d.proyectos, Incluido),
      proyMap |-> proyMap]

(***************************************************************************)
(* 4. calcularKPIs                                                         *)
(***************************************************************************)
RECURSIVE SumarPresupuestado(_, _)
\* registrosFilt.reduce((s, r) => s + r.presupuestado, 0), from the sum s on
SumarPresupuestado(arr, s) ==
  IF arr = << >> THEN s ELSE SumarPresupuestado(Tail(arr), s + Head(arr).presupuestado)

RECURSIVE SumarEjecutado(_, _)
\* registrosFilt.reduce((s, r) => s + r.ejecutado, 0), from the sum s on
SumarEjecutado(arr, s) ==
  IF arr = << >> THEN s ELSE SumarEjecutado(Tail(arr), s + Head(arr).ejecutado)

\* ejecutado / presupuestado * 100 as a fraction; a zero divisor gives NaN or Infinity.
Dividir100(ejecutado, presupuestado) == [num |-> 100 * ejecutado, den |-> presupuestado]
Cero == [num |-> 0, den |-> 1]

\* Mutant of pctEjecucion: the division is not guarded.
pctEjecucionSinGuarda(totalEjecutado, totalPresupuestado) ==
  Dividir100(totalEjecutado, totalPresupuestado)

\* totalPresupuestado > 0 ? (totalEjecutado / totalPresupuestado * 100) : 0
pctEjecucion(totalEjecutado, totalPresupuestado) ==
  IF totalPresupuestado > 0 THEN Dividir100(totalEjecutado, totalPresupuestado) ELSE Cero

EsActivo(p) == p.estado = EN_EJECUCION

\* Mutant of calcularKPIs: activos counts every filtered project.
calcularKPIsActivosSinEstado(registrosFilt, proyectosFilt) ==
  LET totalPresupuestado == SumarPresupuestado(registrosFilt, 0)
      totalEjecutado == SumarEjecutado(registrosFilt, 0)
  IN [totalPresupuestado |-> totalPresupuestado,
      totalEjecutado |-> totalEjecutado,
      pctEjecucion |-> pctEjecucion(totalEjecutado, totalPresupuestado),
      activos |-> Len(proyectosFilt)]

calcularKPIs(registrosFilt, proyectosFilt) ==
  LET totalPresupuestado == SumarPresupuestado(registrosFilt, 0)
      totalEjecutado == SumarEjecutado(registrosFilt, 0)
  IN [totalPresupuestado |-> totalPresupuestado,
      totalEjecutado |-> totalEjecutado,
      pctEjecucion |-> pctEjecucion(totalEjecutado, totalPresupuestado),
      activos |-> Len(SelectSeq(proyectosFilt, EsActivo))]

(***************************************************************************)
(* 7. Grouping                                                             *)
(***************************************************************************)
\* e comes before f in Object.entries when both are own entries of an object.
AntesEnObjeto(e, f) ==
  EsIndice(e.clave) /\ (EsIndice(f.clave) => ValorIndice(e.clave) < ValorIndice(f.clave))

RECURSIVE NuevaEntrada(_, _)
\* acc[e.clave] = {...} for a key acc does not own: an index key goes to its
\* numeric place among the index keys, any other key to the end.
NuevaEntrada(acc, e) ==
  IF acc = << >> THEN <<e>>
  ELSE IF AntesEnObjeto(e, Head(acc)) THEN <<e>> \o acc
  ELSE <<Head(acc)>> \o NuevaEntrada(Tail(acc), e)

\* if (!acc[clave]) acc[clave] = {0, 0}; then both sums increased by the record.
\* For a key of Object.prototype acc[clave] is the inherited value: no entry is
\* created and the amounts are added to properties of that value, not to acc.
Acumular(acc, clave, reg) ==
  IF \E i \in 1..Len(acc) : acc[i].clave = clave
  THEN [i \in 1..Len(acc) |->
          IF acc[i].clave = clave
          THEN [acc[i] EXCEPT !.presupuestado = @ + reg.presupuestado,
                              !.ejecutado = @ + reg.ejecutado]
          ELSE acc[i]]
  ELSE IF clave \in PrototypeNames THEN acc
  ELSE NuevaEntrada(acc, [clave |-> clave, presupuestado |-> reg.presupuestado,
                          ejecutado |-> reg.ejecutado])

\* proy ? proy[campo] : 'N/A', used as a property key (so converted to a string).
ClaveGrupo(reg, proyMap, campo) ==
  IF LeerProy(proyMap, reg.id_proyecto) # << >>
  THEN StringDe(LeerProy(proyMap, reg.id_proyecto)[1][campo])
  ELSE "N/A"

RECURSIVE AgruparCampo(_, _, _, _)
\* The forEach of agruparPorCampoProy over the records arr, from acc on.
AgruparCampo(arr, proyMap, campo, acc) ==
  IF arr = << >> THEN acc
  ELSE AgruparCampo(Tail(arr), proyMap, campo,
                    Acumular(acc, ClaveGrupo(Head(arr), proyMap, campo), Head(arr)))

agruparPorCampoProy(registrosFilt, proyMap, campo) ==
  AgruparCampo(registrosFilt, proyMap, campo, << >>)

\* Mutant of ClaveMes: the month is not padded.
ClaveMesSinPad(reg) == StringNum(reg.anio) \o <<45>> \o StringNum(reg.mes)

\* `${reg.anio}-${String(reg.mes).padStart(2,'0')}`
ClaveMes(reg) == StringNum(reg.anio) \o <<45>> \o padStart2(StringNum(reg.mes))

AcumularMes(acc, reg) ==
  LET key == ClaveMes(reg) IN
  IF \E i \in 1..Len(acc) : acc[i].key = key
  THEN [i \in 1..Len(acc) |->
          IF acc[i].key = key
          THEN [acc[i] EXCEPT !.ejecutado = @ + reg.ejecutado,
                              !.presupuestado = @ + reg.presupuestado]
          ELSE acc[i]]
  ELSE Append(acc, [key |-> key, label |-> [mes |-> reg.mes, anio |-> reg.anio],
                    ejecutado |-> reg.ejecutado, presupuestado |-> reg.presupuestado])

RECURSIVE AgruparMes(_, _)
\* The forEach of agruparPorMes over the records arr, from acc on.
AgruparMes(arr, acc) ==
  IF arr = << >> THEN acc ELSE AgruparMes(Tail(arr), AcumularMes(acc, Head(arr)))

\* ([a], [b]) => a.localeCompare(b) is negative
AntesPorClave(a, b) == LexMenor(a.key, b.key)

RECURSIVE InsertarPorClave(_, _)
\* x placed before the first bucket that the comparator puts after it.
InsertarPorClave(ordenado, x) ==
  IF ordenado = << >> THEN <<x>>
  ELSE IF AntesPorClave(x, Head(ordenado)) THEN <<x>> \o ordenado
  ELSE <<Head(ordenado)>> \o InsertarPorClave(Tail(ordenado), x)

RECURSIVE OrdenarPorClave(_, _)
\* Object.entries(acc).sort(...): Array.prototype.sort is stable.
OrdenarPorClave(arr, ordenado) ==
  IF arr = << >> THEN ordenado
  ELSE OrdenarPorClave(Tail(arr), InsertarPorClave(ordenado, Head(arr)))

agruparPorMes(registrosFilt) == OrdenarPorClave(AgruparMes(registrosFilt, << >>), << >>)

RECURSIVE AgruparProy(_, _)
\* The forEach of top10Proyectos over the records arr, from acc on.
AgruparProy(arr, acc) ==
  IF arr = << >> THEN acc
  ELSE AgruparProy(Tail(arr), Acumular(acc, Head(arr).id_proyecto, Head(arr)))

\* presupuestado > 0 ? (ejecutado / presupuestado * 100) : 0
pctProyecto(ejecutado, presupuestado) ==
  IF presupuestado > 0 THEN Dividir100(ejecutado, presupuestado) ELSE Cero

\* The entry built by .map in top10Proyectos.
EntradaTop(e, proyMap) ==
  [id |-> e.clave,
   proy |-> LeerProy(proyMap, e.clave),
   presupuestado |-> e.presupuestado,
   ejecutado |-> e.ejecutado,
   pct |-> pctProyecto(e.ejecutado, e.presupuestado)]

\* (a, b) => b.ejecutado - a.ejecutado is negative
AntesPorEjecutado(a, b) == b.ejecutado - a.ejecutado < 0

RECURSIVE InsertarPorEjecutado(_, _)
\* x placed before the first entry that the comparator puts after it.
InsertarPorEjecutado(ordenado, x) ==
  IF ordenado = << >> THEN <<x>>
  ELSE IF AntesPorEjecutado(x, Head(ordenado)) THEN <<x>> \o ordenado
  ELSE <<Head(ordenado)>> \o InsertarPorEjecutado(Tail(ordenado), x)

RECURSIVE OrdenarPorEjecutado(_, _)
\* .sort((a, b) => b.ejecutado - a.ejecutado): Array.prototype.sort is stable.
OrdenarPorEjecutado(arr, ordenado) ==
  IF arr = << >> THEN ordenado
  ELSE OrdenarPorEjecutado(Tail(arr), InsertarPorEjecutado(ordenado, Head(arr)))

\* Object.entries(acc).map(...) of top10Proyectos.
EntradasTop(registrosFilt, proyMap) ==
  LET acc == AgruparProy(registrosFilt, << >>)
  IN [i \in 1..Len(acc) |-> EntradaTop(acc[i], proyMap)]

top10Proyectos(registrosFilt, proyMap) ==
  Slice0(OrdenarPorEjecutado(EntradasTop(registrosFilt, proyMap), << >>), TopN)

\* top10Proyectos(...).slice(0, 8) in renderChartPresupuesto
Top8(registrosFilt, proyMap) == Slice0(top10Proyectos(registrosFilt, proyMap), TopChart)

(***************************************************************************)
(* 9. renderTablaTop10: the status band of one row                         *)
(***************************************************************************)
PctMayorIgual(pct, n) == pct.num >= n * pct.den
PctMenor(pct, n) == pct.num < n * pct.den

\* Mutant of progClass: over-execution does not keep a row from being green.
progClassSinSobre(pct, sobreEjec) ==
  IF PctMayorIgual(pct, 90) THEN "prog-green"
  ELSE IF PctMenor(pct, 50) THEN "prog-red"
  ELSE IF sobreEjec THEN "prog-red"
  ELSE "prog-yellow"

progClass(pct, sobreEjec) ==
  IF PctMayorIgual(pct, 90) /\ ~sobreEjec THEN "prog-green"
  ELSE IF PctMenor(pct, 50) THEN "prog-red"
  ELSE IF sobreEjec THEN "prog-red"
  ELSE "prog-yellow"

pctColor(pct, sobreEjec) ==
  IF PctMayorIgual(pct, 90) /\ ~sobreEjec THEN "var(--teal)"
  ELSE IF PctMenor(pct, 50) \/ sobreEjec THEN "var(--red-alert)"
  ELSE "var(--gold)"

FilaTabla(item) ==
  LET sobreEjec == item.ejecutado > item.presupuestado
  IN [id |-> item.id, pct |-> item.pct, presupuestado |-> item.presupuestado,
      ejecutado |-> item.ejecutado, sobreEjec |-> sobreEjec,
      progClass |-> progClass(item.pct, sobreEjec),
      pctColor |-> pctColor(item.pct, sobreEjec)]

renderTablaTop10(registrosFilt, proyMap) ==
  LET top == top10Proyectos(registrosFilt, proyMap)
  IN IF Len(top) = 0 THEN [vacia |-> TRUE, filas |-> << >>]
     ELSE [vacia |-> FALSE, filas |-> [i \in 1..Len(top) |-> FilaTabla(top[i])]]


(***************************************************************************)
(* 8. The four charts and their canvases                                   *)
(***************************************************************************)
\* Mutant of restaurarCanvas: the placeholder is left in place.
restaurarCanvasSinQuitar(c) == [c EXCEPT !.display = ""]

\* restaurarCanvas: show the canvas, remove one placeholder if there is one.
restaurarCanvas(c) ==
  [c EXCEPT !.display = "", !.vacios = IF @ > 0 THEN @ - 1 ELSE 0]

\* mostrarVacio: hide the canvas, remove one earlier placeholder, append a new one.
mostrarVacio(c) ==
  [c EXCEPT !.display = "none", !.vacios = (IF @ > 0 THEN @ - 1 ELSE 0) + 1]

\* crearChart: the old Chart instance is destroyed and a new one is created. The
\* data a chart draws is the aggregation of the update that created it: "actual"
\* for the last update, "anterior" for an earlier one.
crearChart(c) == [c EXCEPT !.chart = <<"actual">>]

\* A Chart instance that the running update does not replace.
Anterior(c) == [c EXCEPT !.chart = IF @ = << >> THEN << >> ELSE <<"anterior">>]

\* renderChartArea, renderChartTipo, renderChartLinea, renderChartPresupuesto:
\* an empty aggregation shows the placeholder and leaves the old chart alone.
renderChart(c, serie) ==
  IF Len(serie) = 0 THEN mostrarVacio(Anterior(c)) ELSE crearChart(c)

(***************************************************************************)
(* 6, 11. renderKPIs and actualizarChips                                   *)
(***************************************************************************)
renderKPIs(kpis) ==
  LET diff == kpis.totalEjecutado - kpis.totalPresupuestado
  IN [kpis |-> kpis,
      sub |-> IF diff > 0 THEN "sobre presupuesto"
              ELSE IF diff < 0 THEN "bajo presupuesto"
              ELSE "Exactamente en presupuesto"]

actualizarChips(f) ==
  {k \in {"anio", "mes"} : f[k] # << >>}
    \cup {k \in {"area", "tipo", "estadoProy", "region"} : f[k] # ""}

(***************************************************************************)
(* 10. actualizarDashboard                                                 *)
(***************************************************************************)
\* The values actualizarDashboard computes from the dataset d under f.
Calcular(d, f) ==
  LET fd == filtrarDatos(d, f)
  IN [registrosFilt |-> fd.registrosFilt,
      proyectosFilt |-> fd.proyectosFilt,
      kpis |-> calcularKPIs(fd.registrosFilt, fd.proyectosFilt),
      porArea |-> agruparPorCampoProy(fd.registrosFilt, fd.proyMap, "area"),
      porTipo |-> agruparPorCampoProy(fd.registrosFilt, fd.proyMap, "tipo"),
      series |-> agruparPorMes(fd.registrosFilt),
      top8 |-> Top8(fd.registrosFilt, fd.proyMap),
      tabla |-> renderTablaTop10(fd.registrosFilt, fd.proyMap)]

\* The page after actualizarDashboard has rendered the values c over the page pag.
Pintar(pag, c, f) ==
  LET rest == [id \in Canvases |-> restaurarCanvas(pag.canvas[id])]
  IN [pag EXCEPT
        !.kpis = <<renderKPIs(c.kpis)>>,
        !.canvas = [id \in Canvases |->
                      renderChart(rest[id],
                        CASE id = "canvas-area" -> c.porArea
                          [] id = "canvas-tipo" -> c.porTipo
                          [] id = "canvas-linea" -> c.series
                          [] OTHER -> c.top8)],
        !.tabla = <<c.tabla>>,
        !.chips = actualizarChips(f)]

(***************************************************************************)
(* 2. inicializarFiltros                                                   *)
(***************************************************************************)
inicializarFiltros(ops, d) ==
  [anio |-> ops.anio \cup {StringNum(d.registros[i].anio) : i \in 1..Len(d.registros)},
   mes |-> ops.mes \cup {StringNum(d.registros[i].mes) : i \in 1..Len(d.registros)},
   area |-> ops.area \cup {StringDe(d.proyectos[i].area) : i \in 1..Len(d.proyectos)},
   tipo |-> ops.tipo \cup {StringDe(d.proyectos[i].tipo) : i \in 1..Len(d.proyectos)},
   estadoProy |->
     ops.estadoProy \cup {StringDe(d.proyectos[i].estado) : i \in 1..Len(d.proyectos)},
   region |-> ops.region \cup {StringDe(d.proyectos[i].region) : i \in 1..Len(d.proyectos)}]

\* mostrarErrorCarga: main-content is replaced by the load-error message.
mostrarErrorCarga(pag) == [pag EXCEPT !.errorCarga = TRUE]


(***************************************************************************)
(* Input datasets (the parsed capex_data.json).                            *)
(***************************************************************************)
Proy(id, area, tipo, est, region) ==
  [id |-> id, area |-> area, tipo |-> tipo, estado |-> est, region |-> region]
Reg(id, anio, mes, presupuestado, ejecutado) ==
  [id_proyecto |-> id, anio |-> anio, mes |-> mes,
   presupuestado |-> presupuestado, ejecutado |-> ejecutado]

\* Projects a small dataset may hold; P2 has no area attribute.
Catalogo ==
  { Proy("P1", "Mina A", "Expansión", EN_EJECUCION, "Norte"),
    Proy("P2", UNDEFINED, "Sostenimiento", "Cerrado", "Sur") }

\* Records a small dataset may hold. A record is an orphan in a dataset that does
\* not hold its project.
Pool ==
  { Reg("P1", 2025, 2, 100, 60),
    Reg("P1", 2024, 12, 100, 120),
    Reg("P2", 2024, 2, 0, 50),
    Reg("P2", 2024, 12, 100, 95) }

\* The sequences of at most n distinct elements of S.
SeqsDistintos(S, n) ==
  UNION { {s \in [1..k -> S] : \A i, j \in 1..k : i # j => s[i] # s[j]} : k \in 0..n }

\* Small datasets: any order of any of the projects, at most MaxReg records.
DatasetsChicos ==
  { [proyectos |-> ps, registros |-> rs] :
      ps \in SeqsDistintos(Catalogo, Cardinality(Catalogo)),
      rs \in SeqsDistintos(Pool, MaxReg) }

IdsRank ==
  <<"R01", "R02", "R03", "R04", "R05", "R06", "R07", "R08", "R09", "R10", "R11", "R12",
    "R13", "R14">>
Pasos == {1, 3}

\* Wide datasets: n projects in two areas; one record each, whose ejecutado
\* follows the residues of a * i modulo 7 (so with ties from 8 projects on), and a
\* second record for every third project.
DatasetRank(n, a) ==
  [proyectos |->
     [i \in 1..n |-> Proy(IdsRank[i], IF i % 2 = 1 THEN "Mina A" ELSE "Mina B",
                          "Expansión", EN_EJECUCION, "Norte")],
   registros |->
     [i \in 1..n |-> Reg(IdsRank[i], 2024, 12, 100, 10 * ((a * i) % 7))]
       \o [j \in 1..(n \div 3) |-> Reg(IdsRank[3 * j], 2024, 12, 50, 30)]]

DatasetsRank == { DatasetRank(n, a) : n \in 0..MaxRank, a \in Pasos }

\* Datasets whose keys are array indices: ids "20", "3", "100" with equal sums,
\* areas "10" and "9".
DatasetIndices ==
  [proyectos |->
     <<Proy("20", "10", "Expansión", EN_EJECUCION, "Norte"),
       Proy("3", "9", "Expansión", EN_EJECUCION, "Norte"),
       Proy("100", "10", "Sostenimiento", "Cerrado", "Sur")>>,
   registros |->
     <<Reg("20", 2024, 12, 10, 5), Reg("3", 2024, 12, 10, 5), Reg("100", 2025, 2, 10, 5)>>]

\* A record of no project whose id_proyecto names a property of Object.prototype.
DatasetHuerfanoPrototipo ==
  [proyectos |-> <<Proy("P1", "Mina A", "Expansión", EN_EJECUCION, "Norte")>>,
   registros |-> <<Reg("P1", 2025, 2, 100, 60), Reg("constructor", 2024, 12, 100, 120)>>]

\* A project whose id, and a project whose area, names a property of Object.prototype.
DatasetClavesPrototipo ==
  [proyectos |->
     <<Proy("toString", "Mina A", "Expansión", EN_EJECUCION, "Norte"),
       Proy("P3", "valueOf", "Sostenimiento", "Cerrado", "Sur")>>,
   registros |->
     <<Reg("toString", 2024, 12, 100, 95), Reg("P3", 2024, 12, 100, 60),
       Reg("P3", 2025, 2, 0, 50)>>]

DatasetsClaves == {DatasetIndices, DatasetHuerfanoPrototipo, DatasetClavesPrototipo}

Datasets == DatasetsChicos \cup DatasetsRank \cup DatasetsClaves

(***************************************************************************)
(* The page's script: DOMContentLoaded, cargarDatos, the listeners.        *)
(***************************************************************************)
Canvas0 == [display |-> "", vacios |-> 0, chart |-> << >>]
Dom0 ==
  [errorCarga |-> FALSE, kpis |-> << >>, canvas |-> [id \in Canvases |-> Canvas0],
   tabla |-> << >>, chips |-> {}]
Opciones0 ==
  [anio |-> {}, mes |-> {}, area |-> {}, tipo |-> {}, estadoProy |-> {}, region |-> {}]

Init ==
  /\ bound = FALSE
  /\ fase = "inicio"
  /\ fetches = 0
  /\ datos = << >>
  /\ filtros = Filtros0
  /\ opciones = Opciones0
  /\ calc = << >>
  /\ dom = Dom0
  /\ excepcion = FALSE
  /\ ultimo = "inicio"

\* document.addEventListener('DOMContentLoaded', ...): bindFiltros(), then
\* cargarDatos() runs up to its first await, the fetch.
DOMContentLoaded ==
  /\ fase = "inicio"
  /\ bound' = TRUE
  /\ fase' = "fetch"
  /\ fetches' = fetches + 1
  /\ UNCHANGED <<datos, filtros, opciones, calc, dom, excepcion, ultimo>>

\* The catch block of cargarDatos.
ErrorDeCarga ==
  /\ fase' = "error"
  /\ dom' = mostrarErrorCarga(dom)
  /\ ultimo' = "error"
  /\ UNCHANGED <<bound, fetches, datos, filtros, opciones, calc, excepcion>>

\* fetch rejects: a network error.
FetchRechaza == fase = "fetch" /\ ErrorDeCarga

\* fetch resolves with a response that is not ok: cargarDatos throws.
FetchNoOk == fase = "fetch" /\ ErrorDeCarga

\* fetch resolves with an ok response: cargarDatos awaits resp.json().
FetchOk ==
  /\ fase = "fetch"
  /\ fase' = "json"
  /\ UNCHANGED <<bound, fetches, datos, filtros, opciones, calc, dom, excepcion, ultimo>>

\* resp.json() rejects: the body is not JSON.
JsonRechaza == fase = "json" /\ ErrorDeCarga

\* Mutant of actualizarDashboard: a null estado.datos is read as an empty dataset.
actualizarDashboardSinDatos(dat, f) ==
  LET d == IF dat = << >> THEN [proyectos |-> << >>, registros |-> << >>] ELSE dat[1]
      c == Calcular(d, f)
  IN /\ excepcion' = FALSE
     /\ calc' = <<c>>
     /\ dom' = Pintar(dom, c, f)

\* The body of an event handler or of cargarDatos from actualizarDashboard() on,
\* under the selection f: filtrarDatos reads estado.datos.proyectos, a TypeError
\* when estado.datos is null.
actualizarDashboard(dat, f) ==
  IF dat = << >>
  THEN /\ excepcion' = TRUE
       /\ UNCHANGED <<calc, dom>>
  ELSE LET c == Calcular(dat[1], f) IN
       /\ excepcion' = FALSE
       /\ calc' = <<c>>
       /\ dom' = Pintar(dom, c, f)

\* resp.json() resolves with the dataset d: the rest of cargarDatos.
JsonResuelve(d) ==
  /\ fase = "json"
  /\ datos' = <<d>>
  /\ opciones' = inicializarFiltros(opciones, d)
  /\ actualizarDashboard(datos', filtros)
  /\ fase' = "cargado"
  /\ ultimo' = "carga"
  /\ UNCHANGED <<bound, fetches, filtros>>

\* The values the user can pick in the select of key: the static empty option and
\* the options inicializarFiltros appended.
Valores(key) ==
  opciones[key] \cup (IF key \in {"anio", "mes"} THEN {<< >>} ELSE {""})

\* Mutant of CambiarFiltro: the selects are populated again, from the filtered set.
CambiarFiltroRepuebla(key, v) ==
  /\ bound
  /\ v # filtros[key]
  /\ filtros' = [filtros EXCEPT ![key] = v]
  /\ actualizarDashboard(datos, filtros')
  /\ ultimo' = "cambiar"
  /\ opciones' =
       IF datos = << >> THEN opciones
       ELSE LET fd == filtrarDatos(datos[1], filtros')
            IN inicializarFiltros(Opciones0, [proyectos |-> fd.proyectosFilt,
                                              registros |-> fd.registrosFilt])
  /\ UNCHANGED <<bound, fase, fetches, datos>>

\* Mutant of CambiarFiltro: the dashboard is updated before the selection is written.
CambiarFiltroSeleccionAnterior(key, v) ==
  /\ bound
  /\ v # filtros[key]
  /\ filtros' = [filtros EXCEPT ![key] = v]
  /\ actualizarDashboard(datos, filtros)
  /\ ultimo' = "cambiar"
  /\ UNCHANGED <<bound, fase, fetches, datos, opciones>>

\* The 'change' listener of the select of key; the browser fires 'change' only
\* when the user picks an option other than the selected one.
CambiarFiltro(key, v) ==
  /\ bound
  /\ v # filtros[key]
  /\ filtros' = [filtros EXCEPT ![key] = v]
  /\ actualizarDashboard(datos, filtros')
  /\ ultimo' = "cambiar"
  /\ UNCHANGED <<bound, fase, fetches, datos, opciones>>

\* Mutant of LimpiarFiltros: the region field is not cleared.
LimpiarFiltrosSinRegion ==
  /\ bound
  /\ filtros' = [k \in DOMAIN filtros |->
                   IF k \in {"anio", "mes"} THEN << >>
                   ELSE IF k = "region" THEN filtros[k] ELSE ""]
  /\ actualizarDashboard(datos, filtros')
  /\ ultimo' = "limpiar"
  /\ UNCHANGED <<bound, fase, fetches, datos, opciones>>

\* The 'click' listener of btn-clear-filters.
LimpiarFiltros ==
  /\ bound
  /\ filtros' = [k \in DOMAIN filtros |-> IF k \in {"anio", "mes"} THEN << >> ELSE ""]
  /\ actualizarDashboard(datos, filtros')
  /\ ultimo' = "limpiar"
  /\ UNCHANGED <<bound, fase, fetches, datos, opciones>>

Next ==
  \/ DOMContentLoaded
  \/ FetchRechaza
  \/ FetchNoOk
  \/ FetchOk
  \/ JsonRechaza
  \/ \E d \in Datasets : JsonResuelve(d)
  \/ \E key \in Claves : \E v \in Valores(key) : CambiarFiltro(key, v)
  \/ LimpiarFiltros

Spec == Init /\ [][Next]_vars


(***************************************************************************)
(* Vocabulary of the properties, stated from the dataset and the           *)
(* selection and not from the pipeline's operators.                        *)
(***************************************************************************)
Cargado == fase = "cargado"
D == datos[1]
C == calc[1]

\* The elements of a sequence.
Rango(arr) == {arr[i] : i \in 1..Len(arr)}

\* The projects of d that a record refers to.
ProyectosDe(reg, d) == {p \in Rango(d.proyectos) : p.id = reg.id_proyecto}

\* The selection f accepts the record joined with the project p.
Acepta(f, reg, p) ==
  /\ f.anio # << >> => f.anio = StringNum(reg.anio)
  /\ f.mes # << >> => f.mes = StringNum(reg.mes)
  /\ f.area # "" => f.area = p.area
  /\ f.tipo # "" => f.tipo = p.tipo
  /\ f.estadoProy # "" => f.estadoProy = p.estado
  /\ f.region # "" => f.region = p.region

\* The k-th smallest element of a set of numbers.
Kesimo(I, k) == CHOOSE i \in I : Cardinality({j \in I : j <= i}) = k

\* The subsequence of arr at the positions I, in the order of arr.
Subsecuencia(arr, I) == [k \in 1..Cardinality(I) |-> arr[Kesimo(I, k)]]

\* The sum of a field over the positions I of arr.
RECURSIVE SumaEn(_, _, _)
SumaEn(arr, campo, I) ==
  IF I = {} THEN 0
  ELSE LET i == CHOOSE x \in I : TRUE IN arr[i][campo] + SumaEn(arr, campo, I \ {i})

SumaCampo(arr, campo) == SumaEn(arr, campo, DOMAIN arr)

\* A fraction is exactly zero (and finite).
EsCero(q) == q.num = 0 /\ q.den > 0

(***************************************************************************)
(* C1 (as stated): filtrarDatos keeps a record iff its id_proyecto resolves to a       *)
(* project and every set field of the selection equals the record's year   *)
(* or month or the joined project's area, tipo, estado or region; the      *)
(* kept records are the subsequence of registros in input order, and a     *)
(* record of an unknown project is never kept.                             *)
(***************************************************************************)
C1_Pasan ==
  {i \in 1..Len(D.registros) :
     \E p \in ProyectosDe(D.registros[i], D) : Acepta(filtros, D.registros[i], p)}

C1_FiltroConjuntivo ==
  Cargado =>
    /\ C.registrosFilt = Subsecuencia(D.registros, C1_Pasan)
    /\ \A i \in 1..Len(C.registrosFilt) : ProyectosDe(C.registrosFilt[i], D) # {}

(***************************************************************************)
(* C2 (as stated): after clear-all, filteredRecords is the full record set *)
(* and filteredProjects is the full project set.                           *)
(***************************************************************************)
C2_LimpiarRestauraTodo ==
  (Cargado /\ ultimo = "limpiar") =>
    /\ C.registrosFilt = D.registros
    /\ C.proyectosFilt = D.proyectos

(***************************************************************************)
(* C2 (amended): after clear-all, from any prior selection, all six        *)
(* fields are '', filteredRecords holds records of the dataset and among   *)
(* them, in input order, every record whose id_proyecto resolves to a      *)
(* project, and filteredProjects is the projects that at least one record  *)
(* refers to, in input order. So the full record set is restored whenever  *)
(* no record is an orphan, and the full project set is restored if and     *)
(* only if every project has a record.                                     *)
(***************************************************************************)
C2_Resuelve(reg) == ProyectosDe(reg, D) # {}

C2_LimpiarRestauraValidos ==
  (Cargado /\ ultimo = "limpiar") =>
    /\ filtros = Filtros0
    /\ Rango(C.registrosFilt) \subseteq Rango(D.registros)
    /\ SelectSeq(C.registrosFilt, C2_Resuelve) =
         Subsecuencia(D.registros,
           {i \in 1..Len(D.registros) : ProyectosDe(D.registros[i], D) # {}})
    /\ C.proyectosFilt =
         Subsecuencia(D.proyectos,
           {i \in 1..Len(D.proyectos) :
              \E j \in 1..Len(D.registros) : D.registros[j].id_proyecto = D.proyectos[i].id})
    /\ (\A i \in 1..Len(D.registros) : ProyectosDe(D.registros[i], D) # {})
         => C.registrosFilt = D.registros
    /\ C.proyectosFilt = D.proyectos
         <=> \A i \in 1..Len(D.proyectos) :
               \E j \in 1..Len(D.registros) :
                 D.registros[j].id_proyecto = D.proyectos[i].id

C2_Witness ==
  /\ Cargado /\ ultimo = "limpiar"
  /\ Len(C.registrosFilt) = 2 /\ Len(D.registros) = 3
  /\ Len(C.proyectosFilt) = 1 /\ Len(D.proyectos) = 1

(***************************************************************************)
(* C3: proyectosFilt is exactly the projects whose id is the id_proyecto   *)
(* of at least one record of registrosFilt.                                *)
(***************************************************************************)
C3_ProyectosReferidos ==
  Cargado =>
    C.proyectosFilt =
      Subsecuencia(D.proyectos,
        {i \in 1..Len(D.proyectos) :
           \E j \in 1..Len(C.registrosFilt) :
             C.registrosFilt[j].id_proyecto = D.proyectos[i].id})

C3_Witness ==
  /\ Cargado
  /\ Len(D.proyectos) = 2 /\ Len(C.proyectosFilt) = 1
  /\ C.proyectosFilt[1] = D.proyectos[2]
  /\ Len(C.registrosFilt) >= 2
  /\ \E i \in 1..Len(D.registros) : D.registros[i].id_proyecto = D.proyectos[1].id

(***************************************************************************)
(* C4: the KPI totals are the sums of presupuestado and of ejecutado over  *)
(* registrosFilt, and activos is the number of projects of proyectosFilt   *)
(* whose estado is 'En ejecución'.                                         *)
(***************************************************************************)
C4_TotalesKPI ==
  Cargado =>
    /\ C.kpis.totalEjecutado = SumaCampo(C.registrosFilt, "ejecutado")
    /\ C.kpis.totalPresupuestado = SumaCampo(C.registrosFilt, "presupuestado")
    /\ C.kpis.activos =
         Cardinality({i \in 1..Len(C.proyectosFilt) :
                        C.proyectosFilt[i].estado = "En ejecución"})
    /\ dom.kpis = <<[kpis |-> C.kpis,
                     sub |-> IF C.kpis.totalEjecutado > C.kpis.totalPresupuestado
                               THEN "sobre presupuesto"
                             ELSE IF C.kpis.totalEjecutado < C.kpis.totalPresupuestado
                               THEN "bajo presupuesto"
                             ELSE "Exactamente en presupuesto"]>>

C4_Witness ==
  /\ Cargado
  /\ filtros # Filtros0
  /\ Len(C.registrosFilt) >= 2
  /\ Len(C.proyectosFilt) = 2
  /\ C.kpis.activos = 1
  /\ C.kpis.totalEjecutado > C.kpis.totalPresupuestado


(***************************************************************************)
(* C5: a percentage whose budget is 0 is exactly 0, never a non-finite     *)
(* value: pctEjecucion when totalPresupuestado = 0 (the empty filtered set *)
(* included, where both totals and activos are 0), and the pct of every    *)
(* ranked project whose summed presupuestado is 0.                         *)
(***************************************************************************)
C5_PorcentajeSinPresupuesto ==
  Cargado =>
    /\ C.kpis.pctEjecucion.den > 0
    /\ SumaCampo(C.registrosFilt, "presupuestado") = 0 => EsCero(C.kpis.pctEjecucion)
    /\ Len(C.registrosFilt) = 0 =>
         /\ C.kpis.totalPresupuestado = 0
         /\ C.kpis.totalEjecutado = 0
         /\ C.kpis.activos = 0
    /\ \A k \in 1..Len(C.tabla.filas) :
         /\ C.tabla.filas[k].pct.den > 0
         /\ C.tabla.filas[k].presupuestado = 0 => EsCero(C.tabla.filas[k].pct)

C5_Witness ==
  /\ Cargado
  /\ Len(C.registrosFilt) = 1
  /\ C.kpis.totalPresupuestado = 0 /\ C.kpis.totalEjecutado = 50
  /\ EsCero(C.kpis.pctEjecucion)
  /\ Len(C.tabla.filas) = 1 /\ EsCero(C.tabla.filas[1].pct)

(***************************************************************************)
(* C6: agruparPorMes returns one bucket per distinct (anio, mes) of the    *)
(* filtered records, in strictly ascending order of (anio, mes), whatever  *)
(* the order of the records, across a year boundary too.                   *)
(***************************************************************************)
C6_Meses == {<<C.registrosFilt[i].anio, C.registrosFilt[i].mes>> : i \in 1..Len(C.registrosFilt)}

C6_SeriesAscendentes ==
  Cargado =>
    /\ {<<C.series[k].label.anio, C.series[k].label.mes>> : k \in 1..Len(C.series)} = C6_Meses
    /\ Len(C.series) = Cardinality(C6_Meses)
    /\ \A k \in 1..Len(C.series) - 1 :
         \/ C.series[k].label.anio < C.series[k + 1].label.anio
         \/ /\ C.series[k].label.anio = C.series[k + 1].label.anio
            /\ C.series[k].label.mes < C.series[k + 1].label.mes

C6_Witness ==
  /\ Cargado
  /\ Len(C.registrosFilt) = 3
  /\ C.registrosFilt[1].anio = 2025
  /\ C.registrosFilt[2].mes = 12
  /\ C.registrosFilt[3].mes = 2 /\ C.registrosFilt[3].anio = 2024
  /\ Len(C.series) = 3
  /\ C.series[2].label = [mes |-> 12, anio |-> 2024]
  /\ C.series[3].label = [mes |-> 2, anio |-> 2025]

(***************************************************************************)
(* C7 (as stated): top10Proyectos returns at most 10 entries, one per      *)
(* distinct id_proyecto, in non-increasing order of summed ejecutado, and  *)
(* no project left out has a larger sum than a returned one; the           *)
(* comparison chart's list is the first 8 entries of the same ranking.     *)
(***************************************************************************)
C7_Ids == {C.registrosFilt[i].id_proyecto : i \in 1..Len(C.registrosFilt)}
C7_Ejecutado(id) ==
  SumaEn(C.registrosFilt, "ejecutado",
         {i \in 1..Len(C.registrosFilt) : C.registrosFilt[i].id_proyecto = id})
C7_Min(a, b) == IF a < b THEN a ELSE b

C7_RankingTop10 ==
  Cargado =>
    LET top == C.tabla.filas IN
    /\ Len(top) = C7_Min(10, Cardinality(C7_Ids))
    /\ \A k \in 1..Len(top) : top[k].id \in C7_Ids /\ top[k].ejecutado = C7_Ejecutado(top[k].id)
    /\ \A j, k \in 1..Len(top) : j # k => top[j].id # top[k].id
    /\ \A k \in 1..Len(top) - 1 : top[k].ejecutado >= top[k + 1].ejecutado
    /\ \A id \in C7_Ids \ {top[k].id : k \in 1..Len(top)} :
         \A k \in 1..Len(top) : C7_Ejecutado(id) <= top[k].ejecutado
    /\ Len(C.top8) = C7_Min(8, Len(top))
    /\ \A k \in 1..Len(C.top8) :
         /\ C.top8[k].id = top[k].id
         /\ C.top8[k].ejecutado = top[k].ejecutado
         /\ C.top8[k].presupuestado = top[k].presupuestado

(***************************************************************************)
(* C8: a row is green iff pct >= 90 and it is not over-executed, red iff   *)
(* it is over-executed or pct < 50, yellow otherwise, and the bar class    *)
(* and the percentage colour show the same band.                           *)
(***************************************************************************)
C8_Banda(fila) ==
  LET sobreEjec == fila.ejecutado > fila.presupuestado
      alMenos90 == fila.pct.num >= 90 * fila.pct.den
      menosDe50 == fila.pct.num < 50 * fila.pct.den
  IN IF alMenos90 /\ ~sobreEjec THEN "verde"
     ELSE IF sobreEjec \/ menosDe50 THEN "rojo"
     ELSE "amarillo"

C8_Clasificacion ==
  Cargado =>
    \A k \in 1..Len(C.tabla.filas) :
      LET fila == C.tabla.filas[k]
          banda == C8_Banda(fila)
      IN /\ fila.progClass = "prog-green" <=> banda = "verde"
         /\ fila.progClass = "prog-red" <=> banda = "rojo"
         /\ fila.progClass = "prog-yellow" <=> banda = "amarillo"
         /\ fila.pctColor = "var(--teal)" <=> banda = "verde"
         /\ fila.pctColor = "var(--red-alert)" <=> banda = "rojo"
         /\ fila.pctColor = "var(--gold)" <=> banda = "amarillo"

C8_Witness ==
  /\ Cargado
  /\ Len(C.tabla.filas) = 2
  /\ C.tabla.filas[1].ejecutado = 120 /\ C.tabla.filas[1].presupuestado = 100
  /\ C.tabla.filas[1].pct = [num |-> 12000, den |-> 100]
  /\ C.tabla.filas[1].progClass = "prog-red"
  /\ C.tabla.filas[2].progClass = "prog-green"

(***************************************************************************)
(* C9 (as stated): in agruparPorCampoProy every record whose project lacks *)
(* the grouping attribute (area or tipo) is accumulated into the group     *)
(* "N/A", and each group's sums are those of the records of its key.       *)
(***************************************************************************)
C9_SinAtributo(campo) ==
  {i \in 1..Len(C.registrosFilt) :
     \E p \in ProyectosDe(C.registrosFilt[i], D) : p[campo] = UNDEFINED}

C9_GrupoNA(grupos, campo) ==
  C9_SinAtributo(campo) # {} =>
    \E g \in 1..Len(grupos) :
      /\ grupos[g].clave = "N/A"
      /\ grupos[g].presupuestado =
           SumaEn(C.registrosFilt, "presupuestado", C9_SinAtributo(campo))
      /\ grupos[g].ejecutado = SumaEn(C.registrosFilt, "ejecutado", C9_SinAtributo(campo))

C9_SinAtributoEnNA ==
  Cargado => C9_GrupoNA(C.porArea, "area") /\ C9_GrupoNA(C.porTipo, "tipo")

(***************************************************************************)
(* C10: once the dataset fetch has failed (network error, response not ok, *)
(* body not JSON) the load-error message is shown, no KPI, chart or table  *)
(* is rendered then or after any later set-field or clear-all event, and   *)
(* no second fetch is issued.                                              *)
(***************************************************************************)
C10_SinRender ==
  /\ dom.kpis = << >>
  /\ dom.tabla = << >>
  /\ \A id \in Canvases : dom.canvas[id] = Canvas0
  /\ calc = << >>

C10_FalloDeCarga ==
  /\ fetches <= 1
  /\ dom.errorCarga <=> fase = "error"
  /\ fase = "error" => C10_SinRender /\ fetches = 1

C10_Witness ==
  /\ fase = "error"
  /\ ultimo = "limpiar"
  /\ excepcion
  /\ dom.errorCarga

(***************************************************************************)
(* C11: after the load, a set-field event changes the addressed field of   *)
(* the selection and no other, a clear-all event leaves all six fields     *)
(* '', and whenever no handler is running the KPIs, the four charts, the   *)
(* table and the chips are those of the whole dataset under the current    *)
(* selection, not under an earlier one.                                    *)
(***************************************************************************)
C11_Serie(id) ==
  CASE id = "canvas-area" -> C.porArea
    [] id = "canvas-tipo" -> C.porTipo
    [] id = "canvas-linea" -> C.series
    [] OTHER -> C.top8

C11_SalidaActual ==
  Cargado =>
    /\ ~excepcion
    /\ calc = <<Calcular(D, filtros)>>
    /\ Len(dom.kpis) = 1 /\ dom.kpis[1].kpis = C.kpis
    /\ dom.tabla = <<C.tabla>>
    /\ dom.chips = {k \in Claves : filtros[k] # Filtros0[k]}
    /\ \A id \in Canvases :
         IF Len(C11_Serie(id)) > 0
         THEN dom.canvas[id].display = "" /\ dom.canvas[id].chart = <<"actual">>
         ELSE dom.canvas[id].display = "none"

C11_Evento ==
  (Cargado /\ Cargado') =>
    \/ /\ ultimo' = "cambiar"
       /\ \E k \in Claves :
            /\ filtros'[k] # filtros[k]
            /\ \A j \in Claves \ {k} : filtros'[j] = filtros[j]
    \/ /\ ultimo' = "limpiar"
       /\ \A k \in Claves : filtros'[k] = Filtros0[k]

C11_UltimaEscrituraGana == [](C11_SalidaActual) /\ [][C11_Evento]_vars

C11_Witness ==
  /\ Cargado /\ ultimo = "cambiar"
  /\ filtros.region # "" /\ filtros.anio # << >>
  /\ Len(C.registrosFilt) = 1 /\ Len(D.registros) = 3
  /\ dom.tabla[1].filas[1].ejecutado = C.registrosFilt[1].ejecutado

(***************************************************************************)
(* C12: no set-field or clear-all event changes the loaded projects and    *)
(* records or the option lists of the six selects; the lists are empty     *)
(* until the load and from then on hold the distinct values of the whole   *)
(* dataset, whatever the selection.                                        *)
(***************************************************************************)
C12_OpcionesDe(d) ==
  [anio |-> {StringNum(r.anio) : r \in Rango(d.registros)},
   mes |-> {StringNum(r.mes) : r \in Rango(d.registros)},
   area |-> {StringDe(p.area) : p \in Rango(d.proyectos)},
   tipo |-> {StringDe(p.tipo) : p \in Rango(d.proyectos)},
   estadoProy |-> {StringDe(p.estado) : p \in Rango(d.proyectos)},
   region |-> {StringDe(p.region) : p \in Rango(d.proyectos)}]

C12_OpcionesDelTotal ==
  IF Cargado THEN Len(datos) = 1 /\ opciones = C12_OpcionesDe(D)
  ELSE datos = << >> /\ \A k \in Claves : opciones[k] = {}

C12_Marco ==
  /\ fase' = fase => (datos' = datos /\ opciones' = opciones)
  /\ Cargado => (Cargado' /\ datos' = datos /\ opciones' = opciones)

C12_DatosYOpcionesFijos == [](C12_OpcionesDelTotal) /\ [][C12_Marco]_vars

C12_Witness ==
  /\ Cargado /\ ultimo = "cambiar"
  /\ filtros.region = "Sur"
  /\ Len(C.registrosFilt) = 0 /\ Len(D.registros) = 3
  /\ Cardinality(opciones.region) = 2
  /\ Cardinality(opciones.anio) = 2

(***************************************************************************)
(* C13: after every update, for each of the four canvases, the "no data"   *)
(* placeholder is present iff the aggregation that feeds the chart is      *)
(* empty and the canvas is visible iff it is not; a canvas never has more  *)
(* than one placeholder, and none stays from an earlier empty result; the  *)
(* table shows its no-data row iff the ranking is empty.                   *)
(***************************************************************************)
C13_Agregacion(id) ==
  CASE id = "canvas-area" -> C.porArea
    [] id = "canvas-tipo" -> C.porTipo
    [] id = "canvas-linea" -> C.series
    [] OTHER -> C.top8

C13_MarcadoresDeVacio ==
  /\ \A id \in Canvases : dom.canvas[id].vacios \in {0, 1}
  /\ Cargado =>
       /\ \A id \in Canvases :
            /\ dom.canvas[id].vacios = 1 <=> C13_Agregacion(id) = << >>
            /\ dom.canvas[id].display = "" <=> C13_Agregacion(id) # << >>
            /\ dom.canvas[id].display = "none" <=> C13_Agregacion(id) = << >>
       /\ Len(dom.tabla) = 1
       /\ dom.tabla[1].vacia <=> C.top8 = << >>
       /\ dom.tabla[1].vacia <=> dom.tabla[1].filas = << >>

C13_Witness ==
  /\ Cargado /\ ultimo = "cambiar"
  /\ Cardinality({k \in Claves : filtros[k] # Filtros0[k]}) >= 2
  /\ Len(D.registros) = 3
  /\ \A id \in Canvases :
       /\ dom.canvas[id].vacios = 1
       /\ dom.canvas[id].display = "none"
       /\ dom.canvas[id].chart = <<"anterior">>
  /\ dom.tabla[1].vacia

(***************************************************************************)
(* C14 (as stated): in every interleaving of the load with the filter      *)
(* events, filtrarDatos runs only while estado.datos is not null: no       *)
(* listener run that starts before the load has completed, or after it     *)
(* has failed, ends with an uncaught exception.                            *)
(***************************************************************************)
C14_EventoSinDatosNoFalla ==
  (bound /\ datos = << >> /\ ultimo \in {"cambiar", "limpiar"}) => ~excepcion

(***************************************************************************)
(* C15 (as stated): for every filtered record set the aggregations         *)
(* conserve the totals: the sums of ejecutado and of presupuestado over    *)
(* the area groups, over the tipo groups and over the monthly buckets each *)
(* equal the KPI totals, and so do the sums over the ranking entries when  *)
(* the filtered records have at most 10 distinct projects.                 *)
(***************************************************************************)
C15_Conserva(grupos) ==
  /\ SumaCampo(grupos, "ejecutado") = C.kpis.totalEjecutado
  /\ SumaCampo(grupos, "presupuestado") = C.kpis.totalPresupuestado

C15_Proyectos == {C.registrosFilt[i].id_proyecto : i \in 1..Len(C.registrosFilt)}

C15_TotalesConservados ==
  Cargado =>
    /\ C.kpis.totalEjecutado = SumaCampo(C.registrosFilt, "ejecutado")
    /\ C.kpis.totalPresupuestado = SumaCampo(C.registrosFilt, "presupuestado")
    /\ C15_Conserva(C.porArea)
    /\ C15_Conserva(C.porTipo)
    /\ C15_Conserva(C.series)
    /\ Cardinality(C15_Proyectos) <= 10 => C15_Conserva(C.tabla.filas)

====
